---- MODULE Spec2Model ----
(***************************************************************************)
(* Model of the task list component App (src/unnamed/part_000): its React  *)
(* state, the file inputs of its form, the asynchronous calls it has in    *)
(* flight, and the remote "tasks" table with its change feed.              *)
(*                                                                         *)
(* Every remote request takes two steps besides the one that issues it:    *)
(* the store serves it (the Serve actions), and later the response reaches *)
(* the component and the code after the await runs (the Done actions).     *)
(* Responses of different requests can arrive in any order.  The lines the *)
(* code writes to the console change no state and are left out.            *)
(***************************************************************************)
EXTENDS Integers, Sequences, FiniteSets, TLC

VARIABLES
    tasks,           \* useState<Task[]>([])              (line 15)
    newTask,         \* useState({title, description})    (line 16)
    newDescription,  \* useState("")                      (line 17)
    taskImage,       \* useState<File | null>(null)       (line 18)
    taskVideo,       \* useState<File | null>(null)       (line 19)
    imageInput,      \* files held by <input type="file" accept="image/*">
    videoInput,      \* files held by <input type="file" accept="video/*">
    phase,           \* "initial", "mounted" or "unmounted"
    session,         \* state of supabase.auth.signInAnonymously()
    channel,         \* state of the "tasks-changes" channel
    dialog,          \* id whose window.confirm dialog is open, 0 when none
    calls,           \* asynchronous calls in flight, in the order issued
    events,          \* postgres_changes events not yet delivered
    remote,          \* rows of the remote table "tasks"
    nextId,          \* next id the remote table assigns
    rev              \* number of changes the remote table has committed

vars == <<tasks, newTask, newDescription, taskImage, taskVideo, imageInput,
          videoInput, phase, session, channel, dialog, calls, events, remote,
          nextId, rev>>

ui == <<newTask, newDescription, taskImage, taskVideo, imageInput, videoInput>>
store == <<remote, nextId, rev, events>>

(***************************************************************************)
(* Bounds                                                                  *)
(***************************************************************************)
MaxCalls == 2     \* asynchronous calls in flight at once
MaxRev == 2       \* changes committed by the remote table
MaxEvents == 2    \* change events waiting for delivery

NULL == "null"
Titles == {"t1"}
Descriptions == {"d1"}
ImageFiles == {"a.png"}
VideoFiles == {"b.mp4"}

(***************************************************************************)
(* Tasks and the remote select                                             *)
(***************************************************************************)
Task(id, title, description, image_url, video_url) ==
    [id |-> id, title |-> title, description |-> description,
     image_url |-> image_url, video_url |-> video_url]

Ids(rows) == {t.id : t \in rows}

Range(s) == {s[k] : k \in 1..Len(s)}

\* the select ordered the other way
RECURSIVE OrderAscending(_)
OrderAscending(rows) ==
    IF rows = {} THEN <<>>
    ELSE LET m == CHOOSE t \in rows : \A u \in rows : u.id >= t.id
         IN  <<m>> \o OrderAscending(rows \ {m})

\* select of all columns, .order("id", { ascending: false })
RECURSIVE OrderByIdDesc(_)
OrderByIdDesc(rows) ==
    IF rows = {} THEN <<>>
    ELSE LET m == CHOOSE t \in rows : \A u \in rows : u.id <= t.id
         IN  <<m>> \o OrderByIdDesc(rows \ {m})

\* the update without its .eq filter
UpdateEveryRow(rows, id, d) == {[t EXCEPT !.description = d] : t \in rows}

\* .update({ description: d }).eq("id", id)
UpdateRows(rows, id, d) ==
    {IF t.id = id THEN [t EXCEPT !.description = d] ELSE t : t \in rows}

\* the delete without its .eq filter
DeleteEveryRow(rows, id) == {}

\* .delete().eq("id", id)
DeleteRows(rows, id) == {t \in rows : t.id # id}

\* the insert with title and description exchanged
InsertRowSwapped(rows, id, c) ==
    rows \cup {Task(id, c.description, c.title, c.imageUrl, c.videoUrl)}

\* .insert([{ title, description, image_url, video_url }])
InsertRow(rows, id, c) ==
    rows \cup {Task(id, c.title, c.description, c.imageUrl, c.videoUrl)}

\* `${folder}/${Date.now()}-${file.name}`; the timestamp is left out of the path
FilePath(folder, file) == folder \o "/" \o file

\* supabase.storage.from("notes-images").getPublicUrl(filePath)
PublicUrl(filePath) == "notes-images/" \o filePath

(***************************************************************************)
(* Calls in flight.  One record shape for all of them; a field a call does *)
(* not use keeps its default.  cause, pre, rev0 and at record the history  *)
(* of a call: what issued it, the table before its write, the table's      *)
(* revision after its write, and the revision its select was served at.    *)
(***************************************************************************)
NoCall ==
    [op |-> "", pc |-> "", id |-> 0, title |-> "", description |-> "",
     image |-> NULL, video |-> NULL, imageUrl |-> NULL, videoUrl |-> NULL,
     error |-> FALSE, data |-> <<>>, cause |-> "", pre |-> {}, rev0 |-> 0,
     at |-> 0]

Remove(s, i) == SubSeq(s, 1, i - 1) \o SubSeq(s, i + 1, Len(s))

Replace(s, i, c) == [s EXCEPT ![i] = c]

\* fetchTasks() up to its await: the select is sent.  The call keeps, as its
\* history, the arguments and the effect of the write c that issued it.
FetchCall(c, cause) ==
    [NoCall EXCEPT !.op = "fetch", !.pc = "select", !.cause = cause,
                   !.id = c.id, !.title = c.title,
                   !.description = c.description, !.pre = c.pre,
                   !.rev0 = c.rev0]

\* the handlers answering only once the sign-in has returned a session
RunningSignedIn == phase = "mounted" /\ dialog = 0 /\ session = "active"

\* the page is shown and no dialog blocks it: the user's input is handled
Running == phase = "mounted" /\ dialog = 0

CanIssue == Len(calls) < MaxCalls

\* what the table can hold when the component starts: nothing, or a row
\* another client inserted
InitialTables == {{}, {Task(1, "t0", "d0", NULL, NULL)}}

(***************************************************************************)
(* Initial state: the values given to useState, nothing issued             *)
(***************************************************************************)
Init ==
    /\ tasks = <<>>
    /\ newTask = [title |-> "", description |-> ""]
    /\ newDescription = ""
    /\ taskImage = NULL
    /\ taskVideo = NULL
    /\ imageInput = <<>>
    /\ videoInput = <<>>
    /\ phase = "initial"
    /\ session = "none"
    /\ channel = "none"
    /\ dialog = 0
    /\ calls = <<>>
    /\ events = 0
    /\ remote \in InitialTables
    /\ nextId = 1 + Cardinality(remote)
    /\ rev = 0

(***************************************************************************)
(* Mount and unmount: the two effects of the component                     *)
(***************************************************************************)
\* useEffect (line 22) starts init(); useEffect (line 146) calls
\* fetchTasks() and subscribes the channel
Mount ==
    /\ phase = "initial"
    /\ phase' = "mounted"
    /\ session' = "pending"
    /\ calls' = Append(calls, FetchCall(NoCall, "mount"))
    /\ channel' = "subscribed"
    /\ UNCHANGED <<tasks, ui, dialog, store>>

\* the continuation of init() after await signInAnonymously()
SignInDone(ok) ==
    /\ session = "pending"
    /\ dialog = 0
    /\ session' = IF ok THEN "active" ELSE "failed"
    /\ UNCHANGED <<tasks, ui, phase, channel, dialog, calls, store>>

\* the cleanup of the second effect: supabase.removeChannel(channel)
Unmount ==
    /\ Running
    /\ phase' = "unmounted"
    /\ channel' = "removed"
    /\ events' = 0
    /\ UNCHANGED <<tasks, ui, session, dialog, calls, remote, nextId, rev>>

(***************************************************************************)
(* Form input                                                              *)
(***************************************************************************)
TypeTitle(t) ==
    /\ Running
    /\ newTask.title # t
    /\ newTask' = [newTask EXCEPT !.title = t]
    /\ UNCHANGED <<tasks, newDescription, taskImage, taskVideo, imageInput,
                   videoInput, phase, session, channel, dialog, calls, store>>

TypeDescription(d) ==
    /\ Running
    /\ newTask.description # d
    /\ newTask' = [newTask EXCEPT !.description = d]
    /\ UNCHANGED <<tasks, newDescription, taskImage, taskVideo, imageInput,
                   videoInput, phase, session, channel, dialog, calls, store>>

\* the edit textarea exists once per listed task; all write newDescription
TypeNewDescription(d) ==
    /\ Running
    /\ tasks # <<>>
    /\ newDescription # d
    /\ newDescription' = d
    /\ UNCHANGED <<tasks, newTask, taskImage, taskVideo, imageInput,
                   videoInput, phase, session, channel, dialog, calls, store>>

handleImage(files) ==
    /\ Running
    /\ imageInput # files
    /\ imageInput' = files
    /\ taskImage' = IF Len(files) > 0 THEN files[1] ELSE taskImage
    /\ UNCHANGED <<tasks, newTask, newDescription, taskVideo, videoInput,
                   phase, session, channel, dialog, calls, store>>

handleVideo(files) ==
    /\ Running
    /\ videoInput # files
    /\ videoInput' = files
    /\ taskVideo' = IF Len(files) > 0 THEN files[1] ELSE taskVideo
    /\ UNCHANGED <<tasks, newTask, newDescription, taskImage, imageInput,
                   phase, session, channel, dialog, calls, store>>

(***************************************************************************)
(* The remote table: commits and the change feed                           *)
(***************************************************************************)
\* a change can be committed: the bounds leave room for it and its event
CanCommit == rev < MaxRev /\ (channel = "subscribed" => events < MaxEvents)

\* a change published to the channel after it was removed as well
EmitAlways == events + 1

\* every committed change is published to a subscribed channel
Emit == IF channel = "subscribed" THEN events + 1 ELSE events

\* fetchTasks() called whether or not the write returned an error
RefreshAlways(i, cause) ==
    Append(Remove(calls, i), FetchCall(calls[i], cause))

\* lines 96-104, 125-130, 138-142: after a write returned, fetchTasks() is
\* called only when it returned no error
CallsAfterWrite(i, cause) ==
    IF calls[i].error
    THEN Remove(calls, i)
    ELSE Append(Remove(calls, i), FetchCall(calls[i], cause))

(***************************************************************************)
(* createTask                                                              *)
(***************************************************************************)
\* the image upload without its if (taskImage) guard
AlwaysUploadImage(image, video) == "uploadImage"

\* lines 84-87: the first request createTask sends
FirstRequest(image, video) ==
    IF image # NULL THEN "uploadImage"
    ELSE IF video # NULL THEN "uploadVideo"
    ELSE "insert"

\* lines 85-87: the request sent after the image upload returned
RequestAfterImage(video) == IF video # NULL THEN "uploadVideo" ELSE "insert"

\* the form submits only when the required fields are filled (lines 176-189)
FormValid ==
    /\ newTask.title # ""
    /\ newTask.description # ""
    /\ imageInput # <<>>
    /\ videoInput # <<>>

createTask ==
    /\ Running
    /\ CanIssue
    /\ FormValid
    /\ calls' = Append(calls,
                  [NoCall EXCEPT !.op = "create",
                                 !.pc = FirstRequest(taskImage, taskVideo),
                                 !.title = newTask.title,
                                 !.description = newTask.description,
                                 !.image = taskImage,
                                 !.video = taskVideo])
    /\ UNCHANGED <<tasks, ui, phase, session, channel, dialog, store>>

\* uploadFile returning the URL whatever the storage answered
UploadIgnoresFailure(outcome, folder, file) == PublicUrl(FilePath(folder, file))

\* uploadFile(file, folder): what it returns for each outcome of the storage
UploadResult(outcome, folder, file) ==
    IF outcome = "ok" THEN PublicUrl(FilePath(folder, file)) ELSE NULL

UploadOutcomes == {"ok", "uploadError", "noPublicUrl", "throw"}

\* line 84 after its await
UploadImageDone(i, outcome) ==
    /\ i \in DOMAIN calls
    /\ dialog = 0
    /\ calls[i].op = "create" /\ calls[i].pc = "uploadImage"
    /\ calls' = Replace(calls, i,
                  [calls[i] EXCEPT
                      !.imageUrl = UploadResult(outcome, "images", calls[i].image),
                      !.pc = RequestAfterImage(calls[i].video)])
    /\ UNCHANGED <<tasks, ui, phase, session, channel, dialog, store>>

\* line 85 after its await
UploadVideoDone(i, outcome) ==
    /\ i \in DOMAIN calls
    /\ dialog = 0
    /\ calls[i].op = "create" /\ calls[i].pc = "uploadVideo"
    /\ calls' = Replace(calls, i,
                  [calls[i] EXCEPT
                      !.videoUrl = UploadResult(outcome, "videos", calls[i].video),
                      !.pc = "insert"])
    /\ UNCHANGED <<tasks, ui, phase, session, channel, dialog, store>>

\* the table serves the insert of lines 87-94
ServeInsert(i, ok) ==
    /\ i \in DOMAIN calls
    /\ calls[i].op = "create" /\ calls[i].pc = "insert"
    /\ IF ok
       THEN /\ CanCommit
            /\ remote' = InsertRow(remote, nextId, calls[i])
            /\ nextId' = nextId + 1
            /\ rev' = rev + 1
            /\ events' = Emit
            /\ calls' = Replace(calls, i,
                          [calls[i] EXCEPT !.pc = "insertDone", !.error = FALSE,
                                           !.id = nextId, !.pre = remote,
                                           !.rev0 = rev + 1])
       ELSE /\ calls' = Replace(calls, i,
                          [calls[i] EXCEPT !.pc = "insertDone", !.error = TRUE])
            /\ UNCHANGED store
    /\ UNCHANGED <<tasks, ui, phase, session, channel, dialog>>

\* the form reset whether or not the insert returned an error
FormClearedAlways(c) == <<[title |-> "", description |-> ""], NULL, NULL>>

\* lines 96-102: newTask, taskImage and taskVideo after the insert returned
FormAfterInsert(c) ==
    IF c.error
    THEN <<newTask, taskImage, taskVideo>>
    ELSE <<[title |-> "", description |-> ""], NULL, NULL>>

\* lines 96-104
InsertDone(i) ==
    /\ i \in DOMAIN calls
    /\ dialog = 0
    /\ calls[i].op = "create" /\ calls[i].pc = "insertDone"
    /\ newTask' = FormAfterInsert(calls[i])[1]
    /\ taskImage' = FormAfterInsert(calls[i])[2]
    /\ taskVideo' = FormAfterInsert(calls[i])[3]
    /\ calls' = CallsAfterWrite(i, "create")
    /\ UNCHANGED <<tasks, newDescription, imageInput, videoInput, phase,
                   session, channel, dialog, store>>

(***************************************************************************)
(* fetchTasks                                                              *)
(***************************************************************************)
\* a select that returns only the rows the local view does not list
SelectNotInView(rows) ==
    OrderByIdDesc({t \in rows : t.id \notin Ids(Range(tasks))})

\* what the select of lines 109-112 returns when it is served
SelectResult(rows) == OrderByIdDesc(rows)

ServeSelect(i, ok) ==
    /\ i \in DOMAIN calls
    /\ calls[i].op = "fetch" /\ calls[i].pc = "select"
    /\ calls' = Replace(calls, i,
                  IF ok
                  THEN [calls[i] EXCEPT !.pc = "selectDone", !.error = FALSE,
                                        !.data = SelectResult(remote),
                                        !.at = rev]
                  ELSE [calls[i] EXCEPT !.pc = "selectDone", !.error = TRUE])
    /\ UNCHANGED <<tasks, ui, phase, session, channel, dialog, store>>

\* the first result shown is kept: a later response does not replace it
FirstResultKept(c) == IF c.error \/ tasks # <<>> THEN tasks ELSE c.data

\* the result merged into the rows already shown
MergedIntoView(c) ==
    IF c.error THEN tasks ELSE OrderByIdDesc(Range(tasks) \cup Range(c.data))

\* setTasks(data) called on error too, with no rows
ClearedOnError(c) == IF c.error THEN <<>> ELSE c.data

\* lines 114-115: the local view after the response c
ViewAfter(c) == IF c.error THEN tasks ELSE c.data

FetchDone(i) ==
    /\ i \in DOMAIN calls
    /\ dialog = 0
    /\ calls[i].op = "fetch" /\ calls[i].pc = "selectDone"
    /\ tasks' = ViewAfter(calls[i])
    /\ calls' = Remove(calls, i)
    /\ UNCHANGED <<ui, phase, session, channel, dialog, store>>

(***************************************************************************)
(* updateTask                                                              *)
(***************************************************************************)
ListedIds == Ids(Range(tasks))

updateTask(id) ==
    /\ Running
    /\ CanIssue
    /\ id \in ListedIds
    /\ calls' = Append(calls,
                  [NoCall EXCEPT !.op = "update", !.pc = "update", !.id = id,
                                 !.description = newDescription])
    /\ UNCHANGED <<tasks, ui, phase, session, channel, dialog, store>>

\* the table serves the update of lines 120-123; an update whose filter
\* matches no row changes nothing and is not an error
ServeUpdate(i, ok) ==
    /\ i \in DOMAIN calls
    /\ calls[i].op = "update" /\ calls[i].pc = "update"
    /\ IF ok /\ calls[i].id \in Ids(remote)
       THEN /\ CanCommit
            /\ remote' = UpdateRows(remote, calls[i].id, calls[i].description)
            /\ rev' = rev + 1
            /\ events' = Emit
            /\ UNCHANGED nextId
       ELSE UNCHANGED store
    /\ calls' = Replace(calls, i,
                  [calls[i] EXCEPT !.pc = "updateDone", !.error = ~ok,
                                   !.pre = remote, !.rev0 = rev'])
    /\ UNCHANGED <<tasks, ui, phase, session, channel, dialog>>

\* the edit field left as it is after an update that succeeded
BufferKept(c) == newDescription

\* lines 125-128: newDescription after the update returned
BufferAfterUpdate(c) == IF c.error THEN newDescription ELSE ""

\* lines 125-130
UpdateDone(i) ==
    /\ i \in DOMAIN calls
    /\ dialog = 0
    /\ calls[i].op = "update" /\ calls[i].pc = "updateDone"
    /\ newDescription' = BufferAfterUpdate(calls[i])
    /\ calls' = CallsAfterWrite(i, "update")
    /\ UNCHANGED <<tasks, newTask, taskImage, taskVideo, imageInput,
                   videoInput, phase, session, channel, dialog, store>>

(***************************************************************************)
(* deleteTask                                                              *)
(***************************************************************************)
\* line 135 up to the dialog: window.confirm blocks the page until answered
deleteTask(id) ==
    /\ Running
    /\ CanIssue
    /\ id \in ListedIds
    /\ dialog' = id
    /\ UNCHANGED <<tasks, ui, phase, session, channel, calls, store>>

\* the delete sent whatever the answer to the dialog
DeleteUnconfirmed(confirmed) ==
    Append(calls, [NoCall EXCEPT !.op = "delete", !.pc = "delete",
                                 !.id = dialog])

\* lines 135-137: the calls in flight after the answer to the dialog
CallsAfterConfirm(confirmed) ==
    IF confirmed
    THEN Append(calls, [NoCall EXCEPT !.op = "delete", !.pc = "delete",
                                      !.id = dialog])
    ELSE calls

\* lines 135-137: the answer to the dialog
AnswerConfirm(confirmed) ==
    /\ dialog # 0
    /\ dialog' = 0
    /\ calls' = CallsAfterConfirm(confirmed)
    /\ UNCHANGED <<tasks, ui, phase, session, channel, store>>

\* the table serves the delete of line 137
ServeDelete(i, ok) ==
    /\ i \in DOMAIN calls
    /\ calls[i].op = "delete" /\ calls[i].pc = "delete"
    /\ IF ok /\ calls[i].id \in Ids(remote)
       THEN /\ CanCommit
            /\ remote' = DeleteRows(remote, calls[i].id)
            /\ rev' = rev + 1
            /\ events' = Emit
            /\ UNCHANGED nextId
       ELSE UNCHANGED store
    /\ calls' = Replace(calls, i,
                  [calls[i] EXCEPT !.pc = "deleteDone", !.error = ~ok,
                                   !.pre = remote, !.rev0 = rev'])
    /\ UNCHANGED <<tasks, ui, phase, session, channel, dialog>>

\* lines 138-142
DeleteDone(i) ==
    /\ i \in DOMAIN calls
    /\ dialog = 0
    /\ calls[i].op = "delete" /\ calls[i].pc = "deleteDone"
    /\ calls' = CallsAfterWrite(i, "delete")
    /\ UNCHANGED <<tasks, ui, phase, session, channel, dialog, store>>

(***************************************************************************)
(* The change feed and the other clients of the table                      *)
(***************************************************************************)
\* lines 151-155: the callback of the channel
FeedEvent ==
    /\ channel = "subscribed"
    /\ dialog = 0
    /\ events > 0
    /\ CanIssue
    /\ events' = events - 1
    /\ calls' = Append(calls, FetchCall(NoCall, "feed"))
    /\ UNCHANGED <<tasks, ui, phase, session, channel, dialog, remote, nextId,
                   rev>>

OtherInsert(t, d) ==
    /\ CanCommit
    /\ remote' = remote \cup {Task(nextId, t, d, NULL, NULL)}
    /\ nextId' = nextId + 1
    /\ rev' = rev + 1
    /\ events' = Emit
    /\ UNCHANGED <<tasks, ui, phase, session, channel, dialog, calls>>

OtherUpdate(id, d) ==
    /\ CanCommit
    /\ id \in Ids(remote)
    /\ remote' = UpdateRows(remote, id, d)
    /\ rev' = rev + 1
    /\ events' = Emit
    /\ UNCHANGED <<tasks, ui, phase, session, channel, dialog, calls, nextId>>

OtherDelete(id) ==
    /\ CanCommit
    /\ id \in Ids(remote)
    /\ remote' = DeleteRows(remote, id)
    /\ rev' = rev + 1
    /\ events' = Emit
    /\ UNCHANGED <<tasks, ui, phase, session, channel, dialog, calls, nextId>>

(***************************************************************************)
(* Specifications                                                          *)
(***************************************************************************)
Texts == {""} \cup Descriptions
RowIds == 1..(MaxRev + 1)

Session == \E ok \in BOOLEAN : SignInDone(ok)

FormInput ==
    \/ \E t \in {""} \cup Titles : TypeTitle(t)
    \/ \E d \in Texts : TypeDescription(d)

EditInput == \E d \in Texts : TypeNewDescription(d)

FileInput ==
    \/ \E f \in {<<>>} \cup {<<x>> : x \in ImageFiles} : handleImage(f)
    \/ \E f \in {<<>>} \cup {<<x>> : x \in VideoFiles} : handleVideo(f)

Create ==
    \/ createTask
    \/ \E i \in DOMAIN calls, o \in UploadOutcomes : UploadImageDone(i, o)
    \/ \E i \in DOMAIN calls, o \in UploadOutcomes : UploadVideoDone(i, o)
    \/ \E i \in DOMAIN calls, ok \in BOOLEAN : ServeInsert(i, ok)
    \/ \E i \in DOMAIN calls : InsertDone(i)

Fetch ==
    \/ \E i \in DOMAIN calls, ok \in BOOLEAN : ServeSelect(i, ok)
    \/ \E i \in DOMAIN calls : FetchDone(i)
    \/ FeedEvent

Update ==
    \/ \E id \in RowIds : updateTask(id)
    \/ \E i \in DOMAIN calls, ok \in BOOLEAN : ServeUpdate(i, ok)
    \/ \E i \in DOMAIN calls : UpdateDone(i)

Delete ==
    \/ \E id \in RowIds : deleteTask(id)
    \/ \E c \in BOOLEAN : AnswerConfirm(c)
    \/ \E i \in DOMAIN calls, ok \in BOOLEAN : ServeDelete(i, ok)
    \/ \E i \in DOMAIN calls : DeleteDone(i)

Others ==
    \/ \E t \in Titles, d \in Descriptions : OtherInsert(t, d)
    \/ \E id \in RowIds, d \in Descriptions : OtherUpdate(id, d)
    \/ \E id \in RowIds : OtherDelete(id)

\* the whole component
Next ==
    \/ Mount
    \/ Session
    \/ Unmount
    \/ FormInput
    \/ EditInput
    \/ FileInput
    \/ Create
    \/ Fetch
    \/ Update
    \/ Delete
    \/ Others

Spec == Init /\ [][Next]_vars

(***************************************************************************)
(* The state space of Spec is the product of the form's states, the        *)
(* session's and the table's.  The specifications below are Spec with the  *)
(* user's input restricted; each starts in a state Spec reaches and takes  *)
(* only steps of Next, so each of their behaviours is a behaviour of Spec  *)
(* continued from that state.  rev counts the changes committed since that *)
(* state, and nextId is the id after those the table holds in it.          *)
(***************************************************************************)
\* the component has mounted and loaded the table, which holds one row; the
\* user has filled the form and typed into the edit field of the row
InitSync ==
    /\ remote \in InitialTables /\ remote # {}
    /\ tasks = OrderByIdDesc(remote)
    /\ \E t \in Titles, d \in Descriptions :
           newTask = [title |-> t, description |-> d]
    /\ newDescription \in Descriptions
    /\ \E f \in ImageFiles : taskImage = f /\ imageInput = <<f>>
    /\ \E f \in VideoFiles : taskVideo = f /\ videoInput = <<f>>
    /\ phase = "mounted"
    /\ session = "pending"
    /\ channel = "subscribed"
    /\ dialog = 0
    /\ calls = <<>>
    /\ events = 0
    /\ nextId = 1 + Cardinality(remote)
    /\ rev = 0

\* the table and the local view: every operation, the feed, the other
\* clients; the user submits, updates and deletes, and types nothing more
NextSync ==
    \/ Unmount
    \/ Create
    \/ Fetch
    \/ Update
    \/ Delete
    \/ Others

SyncSpec == InitSync /\ [][NextSync]_vars

\* the component has mounted and loaded the table; the user has typed a
\* title and a description, and each file input holds a file: one chosen for
\* this submit, or one left from a submit that succeeded, which has reset
\* taskImage or taskVideo
InitForm ==
    /\ remote \in InitialTables
    /\ tasks = OrderByIdDesc(remote)
    /\ \E t \in Titles, d \in Descriptions :
           newTask = [title |-> t, description |-> d]
    /\ newDescription = ""
    /\ \E f \in ImageFiles : imageInput = <<f>> /\ taskImage \in {f, NULL}
    /\ \E f \in VideoFiles : videoInput = <<f>> /\ taskVideo \in {f, NULL}
    /\ phase = "mounted"
    /\ session = "pending"
    /\ channel = "subscribed"
    /\ dialog = 0
    /\ calls = <<>>
    /\ events = 0
    /\ nextId = 1 + Cardinality(remote)
    /\ rev = 0

\* the form: the user chooses files and submits; no other client writes to
\* the table
NextForm ==
    \/ FileInput
    \/ Create
    \/ Fetch

FormSpec == InitForm /\ [][NextForm]_vars

\* every request in flight is served, every response is handled and every
\* event of the feed is delivered: what the store, the network and the event
\* loop do without the user
FairSyncSpec ==
    /\ SyncSpec
    /\ WF_vars(FeedEvent)
    /\ \A i \in 1..MaxCalls :
          /\ WF_vars(\E o \in UploadOutcomes : UploadImageDone(i, o))
          /\ WF_vars(\E o \in UploadOutcomes : UploadVideoDone(i, o))
          /\ WF_vars(\E ok \in BOOLEAN : ServeInsert(i, ok))
          /\ WF_vars(InsertDone(i))
          /\ WF_vars(\E ok \in BOOLEAN : ServeSelect(i, ok))
          /\ WF_vars(FetchDone(i))
          /\ WF_vars(\E ok \in BOOLEAN : ServeUpdate(i, ok))
          /\ WF_vars(UpdateDone(i))
          /\ WF_vars(\E ok \in BOOLEAN : ServeDelete(i, ok))
          /\ WF_vars(DeleteDone(i))

(***************************************************************************)
(* Properties                                                              *)
(***************************************************************************)
Calls == Range(calls)

\* a refresh whose select has been served without error
Served(c) == c.op = "fetch" /\ c.pc = "selectDone" /\ ~c.error

\* a served refresh issued by a write, read at the revision that write left:
\* no other change was committed between the write and the read
ReadsOwnWrite(c, cause) == Served(c) /\ c.cause = cause /\ c.at = c.rev0

RowOf(rows, id) == CHOOSE t \in rows : t.id = id

NoRefreshFails == \A c \in Calls : c.op = "fetch" => ~c.error

NoRefreshInFlight == \A c \in Calls : c.op # "fetch"

\* C1: when no refresh fails, every refresh issued completes, every event of
\* the feed is delivered and the channel stays subscribed (the changes of
\* the table stop: MaxRev bounds them), the local view eventually equals the
\* table ordered by id descending, and stays equal to it.
EventuallyConsistent ==
    ([]NoRefreshFails /\ []<>(NoRefreshInFlight /\ events = 0)
        /\ [](channel = "subscribed"))
        => <>[](tasks = OrderByIdDesc(remote))

\* C3: the local view is strictly ordered by id descending in every reachable
\* state, so no id appears twice in it.
ViewOrderedByIdDesc ==
    \A k \in 1..(Len(tasks) - 1) : tasks[k].id > tasks[k + 1].id

ViewHoldsTwoTasks == Len(tasks) >= 2

\* C8: the step that handles a failed refresh leaves the local view as it was.
FailedRefreshKeepsView ==
    [][\A i \in DOMAIN calls :
          (FetchDone(i) /\ calls[i].error) => tasks' = tasks]_vars

RefreshFailedOnShownView ==
    \E c \in Calls : c.op = "fetch" /\ c.pc = "selectDone" /\ c.error
                     /\ tasks # <<>>

AddsSubmittedTask(old, new, c) ==
    LET added == {t \in Range(new) : t.id \notin Ids(Range(old))}
    IN  /\ Cardinality(added) = 1
        /\ \A t \in added :
              /\ t.title = c.title
              /\ t.description = c.description
              /\ \A u \in Range(old) : t.id > u.id
              /\ new[1] = t

\* C2 as stated: the refresh issued by a successful create, when it succeeds,
\* adds exactly one Task to the previously observed sequence: the submitted
\* one, with the greatest id, first.
CreateRefreshAddsOneTask ==
    [][\A i \in DOMAIN calls :
          (FetchDone(i) /\ Served(calls[i]) /\ calls[i].cause = "create")
              => AddsSubmittedTask(tasks, tasks', calls[i])]_vars

\* C2 amended: the same, when the previously observed sequence is the table
\* as it was just before the insert and no other change was committed between
\* the insert and the read of the refresh.
CreateRefreshAddsOneTaskWhenAlone ==
    [][\A i \in DOMAIN calls :
          (/\ FetchDone(i)
           /\ ReadsOwnWrite(calls[i], "create")
           /\ tasks = OrderByIdDesc(calls[i].pre))
              => AddsSubmittedTask(tasks, tasks', calls[i])]_vars

CreateRefreshReadAlone ==
    \E c \in Calls : /\ ReadsOwnWrite(c, "create")
                     /\ tasks = OrderByIdDesc(c.pre)
                     /\ tasks # <<>>

\* C4: the refresh issued by a successful update of an existing id, read with
\* no other change in between, shows that id with the new description and its
\* title, image_url and video_url as before, every other Task as before, and
\* no Task more or less.
UpdateRefreshChangesOnlyDescription ==
    [][\A i \in DOMAIN calls :
          (/\ FetchDone(i)
           /\ ReadsOwnWrite(calls[i], "update")
           /\ calls[i].id \in Ids(calls[i].pre))
              => /\ Ids(Range(tasks')) = Ids(calls[i].pre)
                 /\ Len(tasks') = Cardinality(calls[i].pre)
                 /\ \A t \in calls[i].pre :
                       LET n == RowOf(Range(tasks'), t.id)
                       IN  IF t.id = calls[i].id
                           THEN /\ n.description = calls[i].description
                                /\ n.title = t.title
                                /\ n.image_url = t.image_url
                                /\ n.video_url = t.video_url
                           ELSE n = t]_vars

UpdateRefreshReadAlone ==
    \E c \in Calls : /\ ReadsOwnWrite(c, "update")
                     /\ c.id \in Ids(c.pre)
                     /\ Cardinality(c.pre) >= 2
                     /\ RowOf(c.pre, c.id).description # c.description

\* C5: the refresh issued by a confirmed, successful delete, read with no
\* other change in between, shows no Task with the deleted id and every other
\* Task as before.
DeleteRefreshRemovesOnlyThatId ==
    [][\A i \in DOMAIN calls :
          (FetchDone(i) /\ ReadsOwnWrite(calls[i], "delete"))
              => /\ calls[i].id \notin Ids(Range(tasks'))
                 /\ \A t \in calls[i].pre :
                       t.id # calls[i].id => t \in Range(tasks')]_vars

DeleteRefreshReadAlone ==
    \E c \in Calls : /\ ReadsOwnWrite(c, "delete")
                     /\ c.id \in Ids(c.pre)
                     /\ Cardinality(c.pre) >= 2

\* C6: an update of an id the table does not hold returns an error, and its
\* handling leaves the local view as it was and issues no refresh.
UpdateOfMissingRowFails ==
    [][\A i \in DOMAIN calls :
          (UpdateDone(i) /\ calls[i].id \notin Ids(calls[i].pre))
              => /\ calls[i].error
                 /\ tasks' = tasks
                 /\ calls' = Remove(calls, i)]_vars

\* C7: the step that handles a failed create, update or delete issues no
\* refresh, leaves the local view and the table as they were, and leaves the
\* component mounted with no dialog open and one call fewer in flight; the
\* table is unchanged by serving the failed write as well.
WriteFailureIsContained ==
    [][\A i \in DOMAIN calls :
          /\ ((InsertDone(i) \/ UpdateDone(i) \/ DeleteDone(i)) /\ calls[i].error)
                => /\ calls' = Remove(calls, i)
                   /\ tasks' = tasks
                   /\ remote' = remote
                   /\ phase' = phase
                   /\ dialog' = dialog
          /\ (ServeInsert(i, FALSE) \/ ServeUpdate(i, FALSE) \/ ServeDelete(i, FALSE))
                => remote' = remote /\ tasks' = tasks]_vars

WriteFailedOnShownView ==
    \E c \in Calls : /\ c.pc \in {"insertDone", "updateDone", "deleteDone"}
                     /\ c.error
                     /\ tasks # <<>>
                     /\ phase = "mounted"

\* C10: a create submitted with no file chosen for a category never uploads
\* for that category and keeps its reference null; with no file at all its
\* first request is the insert; and the row the table inserts for it has a
\* null image_url, a null video_url, or both, accordingly.
NoFileNoUpload ==
    /\ [](\A c \in Calls :
            c.op = "create" =>
                /\ c.image = NULL => (c.pc # "uploadImage" /\ c.imageUrl = NULL)
                /\ c.video = NULL => (c.pc # "uploadVideo" /\ c.videoUrl = NULL)
                /\ (c.image = NULL /\ c.video = NULL)
                      => c.pc \in {"insert", "insertDone"})
    /\ [][\A i \in DOMAIN calls :
            ServeInsert(i, TRUE) =>
                \E t \in remote' \ remote :
                    /\ t.title = calls[i].title
                    /\ t.description = calls[i].description
                    /\ calls[i].image = NULL => t.image_url = NULL
                    /\ calls[i].video = NULL => t.video_url = NULL]_vars

RowInsertedWithoutFiles ==
    \E c \in Calls :
        /\ c.op = "create" /\ c.pc = "insertDone" /\ ~c.error
        /\ c.image = NULL /\ c.video = NULL
        /\ \E t \in remote : /\ t.id = c.id
                             /\ t.title = c.title
                             /\ t.image_url = NULL /\ t.video_url = NULL

\* C11: an upload yields a reference only when the storage accepted the file
\* and produced a public URL; for a storage error, a missing public URL or an
\* exception it yields null, and the create goes on to its next request with
\* the other category's reference as it was; the insert is issued with the
\* references the uploads yielded, null for a failed one.
UploadFailureYieldsNull ==
    [][\A i \in DOMAIN calls :
          /\ \A o \in UploadOutcomes :
                /\ UploadImageDone(i, o) =>
                      /\ (calls'[i].imageUrl # NULL) <=> (o = "ok")
                      /\ calls'[i].videoUrl = calls[i].videoUrl
                      /\ Len(calls') = Len(calls)
                      /\ calls'[i].op = "create"
                      /\ calls'[i].pc \in {"uploadVideo", "insert"}
                /\ UploadVideoDone(i, o) =>
                      /\ (calls'[i].videoUrl # NULL) <=> (o = "ok")
                      /\ calls'[i].imageUrl = calls[i].imageUrl
                      /\ Len(calls') = Len(calls)
                      /\ calls'[i].op = "create"
                      /\ calls'[i].pc = "insert"
          /\ ServeInsert(i, TRUE) =>
                \E t \in remote' \ remote :
                    /\ t.image_url = calls[i].imageUrl
                    /\ t.video_url = calls[i].videoUrl]_vars

RowInsertedAfterOneUploadFailed ==
    \E c \in Calls :
        /\ c.op = "create" /\ c.pc = "insertDone" /\ ~c.error
        /\ c.image # NULL /\ c.imageUrl = NULL
        /\ c.video # NULL /\ c.videoUrl # NULL
        /\ \E t \in remote : /\ t.id = c.id
                             /\ t.image_url = NULL
                             /\ t.video_url = c.videoUrl

\* the create form: the typed fields, the chosen files and the file inputs
form == <<newTask, taskImage, taskVideo, imageInput, videoInput>>

\* C12: the step that handles a failed insert leaves the title, the
\* description, the chosen image and video, the file inputs and the local view
\* as they were; and the typed fields change, or a chosen file is dropped,
\* only in the step that handles an insert that succeeded.
FormClearedOnlyOnSuccess ==
    [][/\ \A i \in DOMAIN calls :
             (InsertDone(i) /\ calls[i].error)
                 => (form' = form /\ tasks' = tasks)
       /\ (\/ newTask' # newTask
           \/ (taskImage # NULL /\ taskImage' = NULL)
           \/ (taskVideo # NULL /\ taskVideo' = NULL))
             => \E i \in DOMAIN calls :
                    /\ InsertDone(i)
                    /\ ~calls[i].error
                    /\ newTask' = [title |-> "", description |-> ""]
                    /\ taskImage' = NULL
                    /\ taskVideo' = NULL]_vars

InsertFailedOnFilledForm ==
    \E c \in Calls :
        /\ c.op = "create" /\ c.pc = "insertDone" /\ c.error
        /\ newTask.title # "" /\ newTask.description # ""
        /\ taskImage # NULL /\ taskVideo # NULL
        /\ tasks # <<>>

\* C13: while the channel is subscribed every change committed to the table,
\* by any client on any row, adds one event, and every event delivered issues
\* one refresh, whatever the event was; the channel is removed when the
\* component unmounts and is never subscribed again; after the unmount no
\* event is pending and no refresh is issued by the feed.
ChangeFeedLifecycle ==
    /\ [](phase = "mounted" => channel = "subscribed")
    /\ [](phase = "unmounted" => (channel = "removed" /\ events = 0))
    /\ [][/\ (rev' # rev /\ channel = "subscribed") => events' = events + 1
          /\ (events' < events /\ phase' = phase)
                => /\ events' = events - 1
                   /\ calls' = Append(calls, FetchCall(NoCall, "feed"))
          /\ (Len(calls') > Len(calls) /\ calls'[Len(calls')].cause = "feed")
                => /\ channel = "subscribed"
                   /\ events' = events - 1
                   /\ Len(calls') = Len(calls) + 1
          /\ channel = "removed" => channel' = "removed"]_vars

FeedRefreshThenTeardown ==
    /\ phase = "unmounted"
    /\ events = 0
    /\ \E c \in Calls : c.cause = "feed" /\ Served(c) /\ c.at < rev

\* the component from its construction: it mounts, the sign-in returns, the
\* view loads; the user updates and deletes what is listed and other clients
\* write to the table; nothing is typed, so the form stays empty and the edit
\* field holds the empty string
NextBoot ==
    \/ Mount
    \/ Session
    \/ Unmount
    \/ Fetch
    \/ Update
    \/ Delete
    \/ Others

BootSpec == Init /\ [][NextBoot]_vars

\* C14: every step that sends a request to the table (a refresh, a create, an
\* update, a delete) or subscribes the channel starts in a state in which the
\* anonymous sign-in has returned, with a session or with an error.
SignInCompletesFirst ==
    [][(\/ Len(calls') > Len(calls)
        \/ (channel' = "subscribed" /\ channel # "subscribed"))
            => session \in {"active", "failed"}]_vars

\* InitSync after the sign-in has returned an error
InitAuth ==
    /\ remote \in InitialTables /\ remote # {}
    /\ tasks = OrderByIdDesc(remote)
    /\ \E t \in Titles, d \in Descriptions :
           newTask = [title |-> t, description |-> d]
    /\ newDescription \in Descriptions
    /\ \E f \in ImageFiles : taskImage = f /\ imageInput = <<f>>
    /\ \E f \in VideoFiles : taskVideo = f /\ videoInput = <<f>>
    /\ phase = "mounted"
    /\ session = "failed"
    /\ channel = "subscribed"
    /\ dialog = 0
    /\ calls = <<>>
    /\ events = 0
    /\ nextId = 1 + Cardinality(remote)
    /\ rev = 0

\* the steps of SyncSpec, all taken after the sign-in failed
AuthSpec == InitAuth /\ [][NextSync]_vars

\* the step a call in flight waits for can be taken
CallCanProceed(i) ==
    LET c == calls[i]
    IN  /\ c.pc = "uploadImage" => ENABLED UploadImageDone(i, "ok")
        /\ c.pc = "uploadVideo" => ENABLED UploadVideoDone(i, "ok")
        /\ (c.pc = "insert" /\ CanCommit) => ENABLED ServeInsert(i, TRUE)
        /\ c.pc = "insertDone" => ENABLED InsertDone(i)
        /\ c.pc = "select" => ENABLED ServeSelect(i, TRUE)
        /\ c.pc = "selectDone" => ENABLED FetchDone(i)
        /\ (c.pc = "update" /\ CanCommit) => ENABLED ServeUpdate(i, TRUE)
        /\ c.pc = "updateDone" => ENABLED UpdateDone(i)
        /\ (c.pc = "delete" /\ CanCommit) => ENABLED ServeDelete(i, TRUE)
        /\ c.pc = "deleteDone" => ENABLED DeleteDone(i)

\* C15: once the sign-in has failed it is not attempted again (neither the
\* mount nor the sign-in's continuation can run once more), and nothing is
\* blocked: the channel of a mounted component is subscribed and delivers its
\* events, the user can submit a valid form and update or delete any listed
\* Task, a confirmation can be given, and every call in flight can proceed.
SignInFailureBlocksNothing ==
    session = "failed" =>
        /\ ~ENABLED Mount
        /\ ~ENABLED Session
        /\ phase = "mounted" => channel = "subscribed"
        /\ (phase = "mounted" /\ dialog = 0 /\ Len(calls) < MaxCalls) =>
              /\ FormValid => ENABLED createTask
              /\ \A id \in ListedIds :
                    ENABLED updateTask(id) /\ ENABLED deleteTask(id)
              /\ events > 0 => ENABLED FeedEvent
        /\ dialog # 0 => ENABLED AnswerConfirm(TRUE)
        /\ dialog = 0 => \A i \in DOMAIN calls : CallCanProceed(i)

\* after the failure: the view shows the row of a create with its uploads, and
\* the refresh of an update has been served
AllOperationsAfterFailedSignIn ==
    /\ session = "failed"
    /\ channel = "subscribed"
    /\ \E t \in Range(tasks) : t.image_url # NULL /\ t.video_url # NULL
    /\ \E c \in Calls : ReadsOwnWrite(c, "update") /\ c.id \in Ids(c.pre)

\* C16: a refresh response handled without error replaces the local view by
\* that response's rows, whatever its place among the calls in flight and
\* whatever revision its select was served at; so when overlapping refreshes
\* have all completed, the view is the result of the one handled last, even
\* when that result is older than one shown before it.
LastCompletedRefreshWins ==
    [][\A i \in DOMAIN calls :
          (FetchDone(i) /\ Served(calls[i]))
              => /\ tasks' = calls[i].data
                 /\ calls' = Remove(calls, i)]_vars

\* the view shows the table as it is now, with a row that the one refresh
\* still to be handled does not hold: that refresh read the table before the
\* row was inserted, and its response will be handled last
OlderRefreshCompletesLast ==
    /\ Len(calls) = 1
    /\ Served(calls[1])
    /\ calls[1].at < rev
    /\ tasks = OrderByIdDesc(remote)
    /\ \E t \in Range(tasks) : t.id = nextId - 1 /\ t.id \notin Ids(Range(calls[1].data))

\* C17: the local view changes only in the step that handles a refresh
\* response without error, and becomes that response's rows; those rows are
\* the whole table as it was when the select was served, ordered.  So the
\* handling of a create, an update or a delete, and every other step, leaves
\* the local view as it was.
ViewReplacedOnlyByRefresh ==
    [][/\ tasks' # tasks
             => \E i \in DOMAIN calls :
                    /\ FetchDone(i)
                    /\ Served(calls[i])
                    /\ tasks' = calls[i].data
       /\ \A i \in DOMAIN calls :
             ServeSelect(i, TRUE)
                 => /\ Range(calls'[i].data) = remote
                    /\ Len(calls'[i].data) = Cardinality(remote)
                    /\ calls'[i].at = rev
                    /\ tasks' = tasks]_vars

\* a write has been committed and its refresh is not served yet: the view
\* still shows the table as it was before the write
ViewStaleUntilRefresh ==
    \E c \in Calls :
        /\ c.op = "fetch" /\ c.pc = "select"
        /\ c.cause \in {"create", "update", "delete"}
        /\ tasks = OrderByIdDesc(c.pre)
        /\ remote # c.pre
        /\ rev = c.rev0

\* C18: the step in which the user declines the confirmation sends no delete
\* and issues no refresh: it changes neither the calls in flight, nor the
\* table and its events, nor the local view; opening the dialog changes none
\* of them either; a delete is added to the calls in flight only by the step
\* that closes the dialog, for the id the dialog was opened for; and the
\* table loses a row only when it serves a delete.
DeleteNeedsConfirmation ==
    [][/\ (AnswerConfirm(FALSE) \/ (dialog # dialog' /\ Len(calls') = Len(calls)))
             => /\ calls' = calls
                /\ remote' = remote
                /\ events' = events
                /\ rev' = rev
                /\ tasks' = tasks
       /\ (Len(calls') > Len(calls) /\ calls'[Len(calls')].op = "delete")
             => /\ dialog # 0
                /\ dialog' = 0
                /\ calls'[Len(calls')].id = dialog
                /\ calls'[Len(calls')].pc = "delete"
                /\ remote' = remote
       /\ (remote' # remote /\ Cardinality(remote') < Cardinality(remote))
             => \/ \E i \in DOMAIN calls : ServeDelete(i, TRUE)
                \/ \E id \in RowIds : OtherDelete(id)]_vars

\* the dialog is open for a row the table holds, with nothing in flight
ConfirmationPending ==
    /\ dialog # 0
    /\ dialog \in Ids(remote)
    /\ dialog \in ListedIds
    /\ calls = <<>>

\* SyncSpec with the user also typing into the edit field of a listed Task
NextEdit ==
    \/ EditInput
    \/ NextSync

EditSpec == InitSync /\ [][NextEdit]_vars

\* C19: an update sends the content the one edit field has when Update is
\* clicked, for whichever listed Task, the empty string included, and the
\* table writes that content as the Task's description; handling an update
\* that returned no error sets the field to the empty string, handling one
\* that returned an error leaves it; and the field changes in no other step
\* than these and the user's typing.
SharedEditBuffer ==
    [][/\ (Len(calls') > Len(calls) /\ calls'[Len(calls')].op = "update")
             => /\ calls'[Len(calls')].description = newDescription
                /\ calls'[Len(calls')].id \in ListedIds
                /\ newDescription' = newDescription
       /\ \A i \in DOMAIN calls :
             /\ (ServeUpdate(i, TRUE) /\ calls[i].id \in Ids(remote))
                   => RowOf(remote', calls[i].id).description
                          = calls[i].description
             /\ UpdateDone(i)
                   => newDescription'
                          = IF calls[i].error THEN newDescription ELSE ""
       /\ newDescription' # newDescription
             => \/ \E d \in Texts : TypeNewDescription(d)
                \/ \E i \in DOMAIN calls :
                       UpdateDone(i) /\ ~calls[i].error]_vars

\* two Tasks are listed; the update of the older one has written what the
\* edit field held, and the user has typed the field empty since
OlderTaskUpdatedFromBuffer ==
    \E c \in Calls :
        /\ c.op = "update" /\ c.pc = "updateDone" /\ ~c.error
        /\ Len(tasks) >= 2
        /\ c.id = tasks[Len(tasks)].id
        /\ c.id \in Ids(remote)
        /\ c.description # ""
        /\ RowOf(remote, c.id).description = c.description
        /\ newDescription = ""

====
